---- MODULE Spec2Model ----
(***************************************************************************)
(* Model of the haemocytometer RBC counting pipeline                       *)
(* (count_rbc_with_grid in app.py / rbccount.py, analyze_image in gsp.py). *)
(*                                                                         *)
(* The OpenCV calls are library code.  Their results are inputs of the     *)
(* pipeline and are drawn, at the step that makes the call, from every     *)
(* value the call's contract allows on a small pool of shapes; what the    *)
(* pipeline itself computes (max, boundingRect use, slicing, filtering,    *)
(* arithmetic, classification, copying, drawing order, exception           *)
(* propagation) is computed as the code computes it.                       *)
(***************************************************************************)
EXTENDS Integers, Sequences, FiniteSets, TLC

VARIABLES
    entry,              \* the function invoked
    pc,                 \* position inside the invocation
    image_path,         \* the file handed to count_rbc_with_grid
    heap,               \* the arrays allocated so far (index = reference)
    image,              \* reference of the decoded image, 0 = None
    gray,               \* reference of the grayscale derivative
    lines,              \* result of HoughLinesP: None or an array of segments
    grid_mask,          \* reference of the grid mask
    contours,           \* components of the grid mask, in extraction order
    largest_contour,    \* max(contours, key=contourArea)
    rect,               \* <<x, y, w, h>> = boundingRect(largest_contour)
    contours_rbc,       \* components of the thresholded ROI
    filtered_contours,  \* the accepted blobs
    raw_rbc_count,
    rbc_per_uL,
    interpretation,
    output_img,         \* reference of the annotated copy
    drawn,              \* number of blob outlines drawn so far
    circles,            \* gsp.py: result of HoughCircles: None or an array
    rbc_count,          \* gsp.py
    abnormal_count,     \* gsp.py
    wbc_estimate,       \* gsp.py
    estimated_rbc_ul,   \* gsp.py
    result,             \* the returned tuple, <<>> while nothing was returned
    error,              \* the exception that left the function, "none" otherwise
    request,            \* app.py /analyze: the request being answered
    response,           \* app.py /analyze: the last answer sent
    session,            \* db.session: the records added and not yet committed
    store,              \* the rows of the RBCData table
    served,             \* number of requests answered
    now,                \* the wall clock, in seconds
    stored_patterns     \* the files written to the stored_patterns folder

vars == <<entry, pc, image_path, heap, image, gray, lines, grid_mask, contours,
          largest_contour, rect, contours_rbc, filtered_contours,
          raw_rbc_count, rbc_per_uL, interpretation, output_img, drawn,
          circles, rbc_count, abnormal_count, wbc_estimate, estimated_rbc_ul,
          result, error,
         request, response, session, store, served, now, stored_patterns>>

-----------------------------------------------------------------------------
(* Bounds of the exploration *)

MaxContours == 3      \* components returned for the grid mask
MaxBlobs == 3         \* components returned for the thresholded ROI
MaxCircles == 2       \* circles returned by the circle detector
MaxRawCount == 3002   \* raw counts given to the estimator on its own
MaxRequests == 2      \* requests sent to the /analyze endpoint

-----------------------------------------------------------------------------
(* Python float arithmetic: IEEE-754 binary64, on hexadecimal digit strings *)
(* (most significant digit first), since the values exceed 32 bits.        *)
(* A float is [mant |-> digits of an integer M, exp |-> e], value M * 2^e. *)

Zeros(k) == [i \in 1..k |-> 0]

RECURSIVE HexOf(_)
HexOf(n) == IF n = 0 THEN <<>> ELSE Append(HexOf(n \div 16), n % 16)

Strip(b) ==
    LET nz == {i \in 1..Len(b) : b[i] # 0}
    IN IF nz = {} THEN <<>>
       ELSE SubSeq(b, CHOOSE i \in nz : \A j \in nz : i <= j, Len(b))

DigitsGE(a, b) ==
    IF Len(a) # Len(b) THEN Len(a) > Len(b)
    ELSE LET diff == {i \in 1..Len(a) : a[i] # b[i]}
         IN diff = {} \/ LET k == CHOOSE i \in diff : \A j \in diff : i <= j
                         IN a[k] > b[k]

RECURSIVE SubBorrow(_, _, _, _)
SubBorrow(a, b, i, borrow) ==
    IF i = 0 THEN <<>>
    ELSE LET d == a[i] - b[i] - borrow
         IN Append(SubBorrow(a, b, i - 1, IF d < 0 THEN 1 ELSE 0),
                   IF d < 0 THEN d + 16 ELSE d)

DigitsSub(a, b) == Strip(SubBorrow(a, Zeros(Len(a) - Len(b)) \o b, Len(a), 0))

RECURSIVE MulCarry(_, _, _, _)
MulCarry(a, k, i, carry) ==
    IF i = 0 THEN HexOf(carry)
    ELSE LET p == a[i] * k + carry
         IN Append(MulCarry(a, k, i - 1, p \div 16), p % 16)

DigitsMul(a, k) == Strip(MulCarry(a, k, Len(a), 0))

\* schoolbook long division of digit string d by m: <<quotient, remainder>>
RECURSIVE LongDiv(_, _, _, _, _)
LongDiv(d, i, q, r, m) ==
    IF i > Len(d) THEN <<Strip(q), r>>
    ELSE LET r2 == Strip(Append(r, d[i]))
             k == CHOOSE c \in 0..15 :
                     /\ DigitsGE(r2, DigitsMul(m, c))
                     /\ c < 15 => ~DigitsGE(r2, DigitsMul(m, c + 1))
         IN LongDiv(d, i + 1, Append(q, k), DigitsSub(r2, DigitsMul(m, k)), m)

Pow2(k) == CASE k = 0 -> 1 [] k = 1 -> 2 [] k = 2 -> 4 [] k = 3 -> 8

BitLen(h) ==
    IF h = <<>> THEN 0
    ELSE 4 * (Len(h) - 1)
         + (CHOOSE n \in 1..4 : Pow2(n - 1) <= h[1] /\ h[1] < 2 * Pow2(n - 1))

BitsOfHex(h) ==
    Strip([i \in 1..4 * Len(h) |->
              (h[(i - 1) \div 4 + 1] \div Pow2(3 - ((i - 1) % 4))) % 2])

RECURSIVE BitsVal(_)
BitsVal(b) ==
    IF b = <<>> THEN 0 ELSE 2 * BitsVal(SubSeq(b, 1, Len(b) - 1)) + b[Len(b)]

MantBits == 53

ShiftedHex(a, s) == HexOf(a * Pow2(s % 4)) \o Zeros(s \div 4)

\* Python's a / f for a positive int a (exactly representable) and a float f:
\* the quotient correctly rounded to 53 bits, round-half-to-even.
TrueDiv(a, f) ==
    LET la == BitLen(HexOf(a))
        s0 == 2 * MantBits - 1 - la
        q0 == LongDiv(ShiftedHex(a, s0), 1, <<>>, <<>>, f.mant)
        s == IF BitLen(q0[1]) = MantBits THEN s0 ELSE s0 + 1
        qr == IF s = s0 THEN q0
              ELSE LongDiv(ShiftedHex(a, s), 1, <<>>, <<>>, f.mant)
        q == qr[1]
        r2 == DigitsMul(qr[2], 2)
        up == IF r2 = f.mant THEN q[Len(q)] % 2 = 1 ELSE DigitsGE(r2, f.mant)
    IN [mant |-> IF up THEN Strip(MulCarry(q, 1, Len(q), 1)) ELSE q,
        exp |-> 0 - s - f.exp]

HexOfBits(b) ==
    LET pad == Zeros((4 - (Len(b) % 4)) % 4) \o b
    IN Strip([i \in 1..(Len(pad) \div 4) |->
                 8 * pad[4 * i - 3] + 4 * pad[4 * i - 2] + 2 * pad[4 * i - 1] + pad[4 * i]])

\* Python's a * f for a non-negative int a (exactly representable) and a
\* float f: the product correctly rounded to 53 bits, round-half-to-even.
TrueMul(a, f) ==
    LET bits == BitsOfHex(DigitsMul(f.mant, a))
        extra == Len(bits) - MantBits
    IN IF extra <= 0 THEN [mant |-> HexOfBits(bits), exp |-> f.exp]
       ELSE LET q == SubSeq(bits, 1, MantBits)
                guard == bits[MantBits + 1] = 1
                sticky == \E i \in (MantBits + 2)..Len(bits) : bits[i] = 1
                up == guard /\ (sticky \/ q[MantBits] = 1)
                qh == HexOfBits(q)
            IN [mant |-> IF up THEN Strip(MulCarry(qh, 1, Len(qh), 1)) ELSE qh,
                exp |-> f.exp + extra]

\* Python's int(f) for a non-negative float: truncation towards zero
PyInt(f) ==
    LET bits == BitsOfHex(f.mant)
    IN IF f.exp >= 0 THEN BitsVal(bits \o Zeros(f.exp))
       ELSE IF 0 - f.exp >= Len(bits) THEN 0
       ELSE BitsVal(SubSeq(bits, 1, Len(bits) + f.exp))

-----------------------------------------------------------------------------
(* Constants of app.py / rbccount.py / gsp.py *)

DILUTION_FACTOR == 200

\* the float literal 0.1 = 0x1.999999999999ap-4 = 0x1999999999999A * 2^-56
CHAMBER_VOLUME_uL ==
    [mant |-> <<1, 9, 9, 9, 9, 9, 9, 9, 9, 9, 9, 9, 9, 10>>, exp |-> 0 - 56]

CONVERSION_FACTOR == TrueDiv(DILUTION_FACTOR, CHAMBER_VOLUME_uL)

LOW_THRESHOLD == 4000000
HIGH_THRESHOLD == 6000000

min_area == 50

GSP_FACTOR == 2000

\* gsp.py: the float literal 0.01 = 0x1.47ae147ae147bp-7 = 0x147AE147AE147B * 2^-59
WBC_RATIO ==
    [mant |-> <<1, 4, 7, 10, 14, 1, 4, 7, 10, 14, 1, 4, 7, 11>>, exp |-> 0 - 59]

\* gsp.py: the radius range given to HoughCircles and the radii called normal
minRadius == 5
maxRadius == 15
NORMAL_RADIUS_MIN == 6
NORMAL_RADIUS_MAX == 14

-----------------------------------------------------------------------------
(* Rasters.  A raster is [w, h, kind, ink]: its size, what its pixels were *)
(* computed from, and the drawing operations applied to it since, in       *)
(* order.  Two rasters are byte-for-byte equal iff the records are equal.  *)

\* the files an invocation may be given: one that cannot be decoded and two
\* decodable images
Files ==
    { [readable |-> FALSE, w |-> 0, h |-> 0],
      [readable |-> TRUE, w |-> 200, h |-> 150],
      [readable |-> TRUE, w |-> 64, h |-> 48] }

Decoded(file) == [w |-> file.w, h |-> file.h, kind |-> "bgr", ink |-> <<>>]

\* cv2 sees None as an empty Mat
EmptyMat == [w |-> 0, h |-> 0, kind |-> "none", ink |-> <<>>]

MatOf(h, ref) == IF ref = 0 THEN EmptyMat ELSE h[ref]

GrayOf(mat) == [w |-> mat.w, h |-> mat.h, kind |-> "gray", ink |-> <<>>]

\* variant: the conversion accepts an empty source
CvtColorRaises_never(mat) == FALSE

\* cv2.cvtColor asserts that its source is not empty
CvtColorRaises(mat) == mat.w = 0 \/ mat.h = 0

\* np.zeros_like(gray)
ZerosLike(mat) == [w |-> mat.w, h |-> mat.h, kind |-> "zeros", ink |-> <<>>]

\* variant: output_img = image, the same array under a second name
NdarrayCopy_alias(h, ref) == <<h, ref>>

\* ndarray.copy(): a new array with the same bytes; <<heap, reference>>
NdarrayCopy(h, ref) == <<Append(h, h[ref]), Len(h) + 1>>

\* a drawing call on the array behind ref
DrawOn(h, ref, op) == [h EXCEPT ![ref].ink = Append(@, op)]

-----------------------------------------------------------------------------
(* Geometry *)

Min2(a, b) == IF a < b THEN a ELSE b
Max2(a, b) == IF a > b THEN a ELSE b
Abs(a) == IF a < 0 THEN 0 - a ELSE a

MinOf(S) == CHOOSE m \in S : \A n \in S : m <= n
MaxOf(S) == CHOOSE m \in S : \A n \in S : m >= n

Range(s) == {s[i] : i \in 1..Len(s)}

\* the parameters of the HoughLinesP and cv2.line calls
minLineLength == 50
LINE_THICKNESS == 2

\* the arrays of segments <<x1, y1, x2, y2>> the line detector is given to
\* return (axis-aligned, so that a stroke is a box of pixels)
HoughPool ==
    { << <<5, 0, 60, 0>> >>,
      << <<5, 0, 60, 0>>, <<5, 47, 60, 47>> >>,
      << <<199, 10, 199, 100>> >>,
      << <<50, 40, 150, 40>>, <<50, 140, 150, 140>>,
         <<50, 40, 50, 140>>, <<150, 40, 150, 140>> >>,
      << <<50, 40, 150, 40>>, <<50, 140, 150, 140>>,
         <<50, 40, 50, 140>>, <<150, 40, 150, 140>>, <<0, 0, 199, 0>> >> }

\* HoughLinesP returns segments of the edge map: end points inside the image,
\* length at least minLineLength
HoughContract(seg, w, h) ==
    /\ 0 <= seg[1] /\ seg[1] < w /\ 0 <= seg[3] /\ seg[3] < w
    /\ 0 <= seg[2] /\ seg[2] < h /\ 0 <= seg[4] /\ seg[4] < h
    /\ Abs(seg[3] - seg[1]) + Abs(seg[4] - seg[2]) >= minLineLength

NoLines == [none |-> TRUE, segs |-> <<>>]

\* None when no line is found, an array of segments otherwise
HoughResults(mat) ==
    {NoLines} \cup
    { [none |-> FALSE, segs |-> a] :
        a \in {b \in HoughPool : \A i \in 1..Len(b) : HoughContract(b[i], mat.w, mat.h)} }

\* the pixels a segment covers when drawn with the given thickness: the
\* segment widened by thickness \div 2 on every side
Stroke(seg) ==
    LET half == LINE_THICKNESS \div 2
    IN [x0 |-> Min2(seg[1], seg[3]) - half, y0 |-> Min2(seg[2], seg[4]) - half,
        x1 |-> Max2(seg[1], seg[3]) + half, y1 |-> Max2(seg[2], seg[4]) + half]

\* variant: drawing that is not clipped to the array
Clip_none(box, w, h) == box

\* drawing is clipped to the array
Clip(box, w, h) ==
    [x0 |-> Max2(box.x0, 0), y0 |-> Max2(box.y0, 0),
     x1 |-> Min2(box.x1, w - 1), y1 |-> Min2(box.y1, h - 1)]

\* cv2.line(grid_mask, (x1, y1), (x2, y2), 255, 2)
LineOp(seg, mat) == <<"line", Clip(Stroke(seg), mat.w, mat.h)>>

\* the foreground of a mask: the boxes drawn on it
Foreground(mat) == {mat.ink[i][2] : i \in 1..Len(mat.ink)}

Covered(p, boxes) ==
    \E b \in boxes : b.x0 <= p[1] /\ p[1] <= b.x1 /\ b.y0 <= p[2] /\ p[2] <= b.y1

BBox(S) ==
    [x0 |-> MinOf({b.x0 : b \in S}), y0 |-> MinOf({b.y0 : b \in S}),
     x1 |-> MaxOf({b.x1 : b \in S}), y1 |-> MaxOf({b.y1 : b \in S})]

Corners(b) == << <<b.x0, b.y0>>, <<b.x1, b.y0>>, <<b.x1, b.y1>>, <<b.x0, b.y1>> >>

\* the contours cv2.findContours may return for a grid mask: closed point
\* sequences whose points are foreground pixels of the mask (here the
\* outlines of groups of strokes)
GridShapes(mat) ==
    { c \in {Corners(BBox(S)) : S \in SUBSET Foreground(mat) \ {{}}} :
        \A i \in 1..Len(c) : Covered(c[i], Foreground(mat)) }

\* sequences of at most n distinct members of S
DistinctSeqs(S, n) ==
    { s \in UNION {[1..k -> S] : k \in 0..n} :
        \A i, j \in 1..Len(s) : i # j => s[i] # s[j] }

\* cv2.findContours(grid_mask, RETR_EXTERNAL, CHAIN_APPROX_SIMPLE): an empty
\* tuple for an all-zero mask, otherwise the components in extraction order
FindGridContours(mat) ==
    IF Foreground(mat) = {} THEN {<<>>}
    ELSE {s \in DistinctSeqs(GridShapes(mat), MaxContours) : s # <<>>}

\* cv2.contourArea: Green's formula over the contour's points.  The area is a
\* multiple of 1/2; contourArea2 is twice the area, an integer.
RECURSIVE Shoelace(_, _)
Shoelace(c, i) ==
    IF i > Len(c) THEN 0
    ELSE LET p == c[i]
             q == c[(i % Len(c)) + 1]
         IN p[1] * q[2] - q[1] * p[2] + Shoelace(c, i + 1)

contourArea2(c) == Abs(Shoelace(c, 1))

\* cv2.boundingRect: <<x, y, w, h>> of the smallest upright rectangle
\* containing the points
boundingRect(c) ==
    LET xs == {c[i][1] : i \in 1..Len(c)}
        ys == {c[i][2] : i \in 1..Len(c)}
    IN <<MinOf(xs), MinOf(ys), MaxOf(xs) - MinOf(xs) + 1, MaxOf(ys) - MinOf(ys) + 1>>

\* variant: a later element replaces the best when it is as large
Better_ge(c, best) == contourArea2(c) >= contourArea2(best)

\* Python's max(seq, key=cv2.contourArea): the first element whose key no
\* later element exceeds (a later element replaces the best only if greater)
Better(c, best) == contourArea2(c) > contourArea2(best)

RECURSIVE MaxLoop(_, _, _)
MaxLoop(seq, i, best) ==
    IF i > Len(seq) THEN best
    ELSE MaxLoop(seq, i + 1, IF Better(seq[i], best) THEN seq[i] ELSE best)

PyMax(seq) == MaxLoop(seq, 2, seq[1])

\* the length of the numpy slice a[start:stop] of an axis of length n
PySliceLen(start, stop, n) ==
    LET norm(i) == IF i < 0 THEN Max2(i + n, 0) ELSE Min2(i, n)
    IN Max2(0, norm(stop) - norm(start))

\* the shapes of blobs the thresholded ROI is given to contain, in ROI-local
\* coordinates: areas 0, 25, 50, 50.5, 51 and 400
RbcPool ==
    { << <<3, 1>> >>,
      << <<0, 0>>, <<25, 0>>, <<25, 1>>, <<0, 1>> >>,
      << <<0, 0>>, <<50, 0>>, <<50, 1>>, <<0, 1>> >>,
      << <<0, 0>>, <<101, 0>>, <<0, 1>> >>,
      << <<2, 0>>, <<53, 0>>, <<53, 1>>, <<2, 1>> >>,
      << <<5, 5>>, <<25, 5>>, <<25, 25>>, <<5, 25>> >> }

FitsIn(c, w, h) ==
    \A i \in 1..Len(c) : 0 <= c[i][1] /\ c[i][1] < w /\ 0 <= c[i][2] /\ c[i][2] < h

\* cv2.findContours(thresh, ...): the components of a w x h mask, possibly
\* none, in extraction order
FindRbcContours(w, h) ==
    DistinctSeqs({c \in RbcPool : FitsIn(c, w, h)}, MaxBlobs)

\* variant: area >= min_area
KeepBlob_ge(c) == contourArea2(c) >= 2 * min_area

\* the filter of the list comprehension: cv2.contourArea(cnt) > min_area
KeepBlob(c) == contourArea2(c) > 2 * min_area

\* variant: the contour drawn as it is, in ROI-local coordinates
Shifted_none(c, x, y) == c

\* cnt + [x, y]
Shifted(c, x, y) == [i \in 1..Len(c) |-> <<c[i][1] + x, c[i][2] + y>>]

\* whether a cv2.drawContours call on a shifted contour succeeds depends on
\* what the binding makes of the array it is handed; both outcomes occur
DrawOutcomes == {"ok", "cv2.error"}

-----------------------------------------------------------------------------
(* gsp.py: circles.  HoughCircles returns float triples <<x, y, r>>; a     *)
(* float coordinate is kept in tenths (305 is 30.5).                       *)

CirclePool ==
    { <<300, 200, 54>>, <<405, 255, 55>>, <<150, 150, 100>>,
      <<500, 300, 145>>, <<1205, 900, 146>> }

\* centres inside the image, radii within [minRadius, maxRadius]
CircleContract(c, w, h) ==
    /\ 0 <= c[1] /\ c[1] < 10 * w
    /\ 0 <= c[2] /\ c[2] < 10 * h
    /\ 10 * minRadius <= c[3] /\ c[3] <= 10 * maxRadius

NoCircles == [none |-> TRUE, arr |-> <<>>]

\* None when no circle is found, an array of circles otherwise
HoughCirclesResults(mat) ==
    {NoCircles} \cup
    { [none |-> FALSE, arr |-> a] :
        a \in DistinctSeqs({c \in CirclePool : CircleContract(c, mat.w, mat.h)},
                           MaxCircles) \ {<<>>} }

\* np.around of a non-negative value in tenths: to the nearest integer,
\* halves to the even neighbour
NpAround(t) ==
    LET q == t \div 10
        r == t % 10
    IN IF r < 5 THEN q
       ELSE IF r > 5 THEN q + 1
       ELSE IF q % 2 = 0 THEN q ELSE q + 1

\* np.uint16 of a non-negative integer
NpUint16(n) == n % 65536

\* circles = np.uint16(np.around(circles))
RoundedCircles(arr) ==
    [i \in 1..Len(arr) |->
        <<NpUint16(NpAround(arr[i][1])), NpUint16(NpAround(arr[i][2])),
          NpUint16(NpAround(arr[i][3]))>>]

\* the abnormality test: r < 6 or r > 14
AbnormalRadius(r) == r < NORMAL_RADIUS_MIN \/ r > NORMAL_RADIUS_MAX

-----------------------------------------------------------------------------
(* The estimator *)

\* variant: the count multiplied by the dilution factor alone
Concentration_nodiv(n) == n * DILUTION_FACTOR

\* raw_rbc_count * int(CONVERSION_FACTOR)
Concentration(n) == n * PyInt(CONVERSION_FACTOR)

\* variant: non-strict comparison with the low threshold
Interpretation_le(c) ==
    IF c <= LOW_THRESHOLD THEN "LOW RBC COUNT (Anemia)"
    ELSE IF c > HIGH_THRESHOLD THEN "HIGH RBC COUNT (Polycythemia)"
    ELSE "NORMAL RBC COUNT"

Interpretation(c) ==
    IF c < LOW_THRESHOLD THEN "LOW RBC COUNT (Anemia)"
    ELSE IF c > HIGH_THRESHOLD THEN "HIGH RBC COUNT (Polycythemia)"
    ELSE "NORMAL RBC COUNT"

\* gsp.py: rbc_count * 2000 and its own messages
GspConcentration(n) == n * GSP_FACTOR

GspInterpretation(c) ==
    IF c < LOW_THRESHOLD THEN "LOW RBC COUNT (Possible Anemia)"
    ELSE IF c > HIGH_THRESHOLD THEN "HIGH RBC COUNT (Possible Polycythemia)"
    ELSE "NORMAL RBC COUNT"

-----------------------------------------------------------------------------
(* count_rbc_with_grid, statement by statement *)

api_vars == <<request, response, session, store, served, now, stored_patterns>>

\* no request received, nothing answered
NoRequest == [has_image |-> FALSE, filename |-> "", file |-> [readable |-> FALSE, w |-> 0, h |-> 0]]
NoResponse == [status |-> 0, body |-> [error |-> ""]]

\* the application as it starts: db.create_all() on an empty database, the
\* stored_patterns folder just made
NoTraffic ==
    /\ request = NoRequest
    /\ response = NoResponse
    /\ session = <<>>
    /\ store = <<>>
    /\ served = 0
    /\ now = 0
    /\ stored_patterns = {}

gsp_vars == <<circles, rbc_count, abnormal_count, wbc_estimate, estimated_rbc_ul>>

Init ==
    /\ entry \in {"count_rbc_with_grid", "analyze_image"}
    /\ pc = IF entry = "count_rbc_with_grid" THEN "imread" ELSE "gsp_imread"
    /\ image_path \in Files
    /\ circles = NoCircles
    /\ rbc_count = 0
    /\ abnormal_count = 0
    /\ wbc_estimate = 0
    /\ estimated_rbc_ul = 0
    /\ heap = <<>>
    /\ image = 0
    /\ gray = 0
    /\ lines = NoLines
    /\ grid_mask = 0
    /\ contours = <<>>
    /\ largest_contour = <<>>
    /\ rect = <<0, 0, 0, 0>>
    /\ contours_rbc = <<>>
    /\ filtered_contours = <<>>
    /\ raw_rbc_count = 0
    /\ rbc_per_uL = 0
    /\ interpretation = ""
    /\ output_img = 0
    /\ drawn = 0
    /\ result = <<>>
    /\ error = "none"
    /\ NoTraffic

\* image = cv2.imread(image_path): None when the file cannot be decoded
Imread ==
    /\ pc = "imread"
    /\ IF image_path.readable
       THEN /\ heap' = Append(heap, Decoded(image_path))
            /\ image' = Len(heap) + 1
       ELSE /\ heap' = heap
            /\ image' = 0
    /\ pc' = "cvtColor"
    /\ UNCHANGED <<api_vars, entry, gsp_vars, image_path, gray, lines, grid_mask, contours, largest_contour,
                   rect, contours_rbc, filtered_contours, raw_rbc_count,
                   rbc_per_uL, interpretation, output_img, drawn, result, error>>

\* gray = cv2.cvtColor(image, cv2.COLOR_BGR2GRAY)
CvtColor ==
    /\ pc = "cvtColor"
    /\ IF CvtColorRaises(MatOf(heap, image))
       THEN /\ pc' = "raised"
            /\ error' = "cv2.error"
            /\ UNCHANGED <<heap, gray>>
       ELSE /\ heap' = Append(heap, GrayOf(MatOf(heap, image)))
            /\ gray' = Len(heap) + 1
            /\ pc' = "hough"
            /\ error' = error
    /\ UNCHANGED <<api_vars, entry, gsp_vars, image_path, image, lines, grid_mask, contours, largest_contour,
                   rect, contours_rbc, filtered_contours, raw_rbc_count,
                   rbc_per_uL, interpretation, output_img, drawn, result>>

\* blur, edges, lines = cv2.HoughLinesP(...): blur and edges are new arrays
\* that nothing else reads
Hough ==
    /\ pc = "hough"
    /\ lines' \in HoughResults(heap[gray])
    /\ pc' = "grid_mask"
    /\ UNCHANGED <<api_vars, entry, gsp_vars, image_path, heap, image, gray, grid_mask, contours,
                   largest_contour, rect, contours_rbc, filtered_contours,
                   raw_rbc_count, rbc_per_uL, interpretation, output_img, drawn,
                   result, error>>

\* grid_mask = np.zeros_like(gray), then every detected line drawn on it
GridMask ==
    /\ pc = "grid_mask"
    /\ LET zeros == ZerosLike(heap[gray])
           strokes == IF lines.none THEN <<>>
                      ELSE [i \in 1..Len(lines.segs) |-> LineOp(lines.segs[i], zeros)]
       IN heap' = Append(heap, [zeros EXCEPT !.ink = strokes])
    /\ grid_mask' = Len(heap) + 1
    /\ pc' = "findContours"
    /\ UNCHANGED <<api_vars, entry, gsp_vars, image_path, image, gray, lines, contours, largest_contour,
                   rect, contours_rbc, filtered_contours, raw_rbc_count,
                   rbc_per_uL, interpretation, output_img, drawn, result, error>>

\* contours, _ = cv2.findContours(grid_mask, ...)
FindContours ==
    /\ pc = "findContours"
    /\ contours' \in FindGridContours(heap[grid_mask])
    /\ pc' = "largest"
    /\ UNCHANGED <<api_vars, entry, gsp_vars, image_path, heap, image, gray, lines, grid_mask,
                   largest_contour, rect, contours_rbc, filtered_contours,
                   raw_rbc_count, rbc_per_uL, interpretation, output_img, drawn,
                   result, error>>

\* largest_contour = max(contours, key=cv2.contourArea)
\* x, y, w, h = cv2.boundingRect(largest_contour)
\* max() of an empty tuple raises ValueError
Largest ==
    /\ pc = "largest"
    /\ IF contours = <<>>
       THEN /\ pc' = "raised"
            /\ error' = "ValueError"
            /\ UNCHANGED <<largest_contour, rect>>
       ELSE /\ largest_contour' = PyMax(contours)
            /\ rect' = boundingRect(largest_contour')
            /\ pc' = "segment"
            /\ error' = error
    /\ UNCHANGED <<api_vars, entry, gsp_vars, image_path, heap, image, gray, lines, grid_mask, contours,
                   contours_rbc, filtered_contours, raw_rbc_count, rbc_per_uL,
                   interpretation, output_img, drawn, result>>

\* roi = gray[y:y+h, x:x+w] (a view), blurred_roi, thresh (new arrays),
\* contours_rbc, _ = cv2.findContours(thresh, ...)
\* cv2.medianBlur raises on an empty source
Segment ==
    /\ pc = "segment"
    /\ LET roi_w == PySliceLen(rect[1], rect[1] + rect[3], heap[gray].w)
           roi_h == PySliceLen(rect[2], rect[2] + rect[4], heap[gray].h)
       IN IF roi_w = 0 \/ roi_h = 0
          THEN /\ pc' = "raised"
               /\ error' = "cv2.error"
               /\ UNCHANGED contours_rbc
          ELSE /\ contours_rbc' \in FindRbcContours(roi_w, roi_h)
               /\ pc' = "filter"
               /\ error' = error
    /\ UNCHANGED <<api_vars, entry, gsp_vars, image_path, heap, image, gray, lines, grid_mask, contours,
                   largest_contour, rect, filtered_contours, raw_rbc_count,
                   rbc_per_uL, interpretation, output_img, drawn, result>>

\* filtered_contours = [cnt for cnt in contours_rbc if contourArea(cnt) > min_area]
\* raw_rbc_count = len(filtered_contours)
Filter ==
    /\ pc = "filter"
    /\ filtered_contours' = SelectSeq(contours_rbc, KeepBlob)
    /\ raw_rbc_count' = Len(filtered_contours')
    /\ pc' = "estimate"
    /\ UNCHANGED <<api_vars, entry, gsp_vars, image_path, heap, image, gray, lines, grid_mask, contours,
                   largest_contour, rect, contours_rbc, rbc_per_uL,
                   interpretation, output_img, drawn, result, error>>

\* rbc_per_uL = raw_rbc_count * int(CONVERSION_FACTOR) and the if/elif/else
Estimate ==
    /\ pc = "estimate"
    /\ rbc_per_uL' = Concentration(raw_rbc_count)
    /\ interpretation' = Interpretation(rbc_per_uL')
    /\ pc' = "copy"
    /\ UNCHANGED <<api_vars, entry, gsp_vars, image_path, heap, image, gray, lines, grid_mask, contours,
                   largest_contour, rect, contours_rbc, filtered_contours,
                   raw_rbc_count, output_img, drawn, result, error>>

\* output_img = image.copy()
\* cv2.rectangle(output_img, (x, y), (x + w, y + h), (255, 0, 0), 3)
CopyAndMark ==
    /\ pc = "copy"
    /\ LET c == NdarrayCopy(heap, image)
       IN /\ output_img' = c[2]
          /\ heap' = DrawOn(c[1], c[2],
                            <<"rectangle", <<rect[1], rect[2],
                                             rect[1] + rect[3], rect[2] + rect[4]>>>>)
    /\ drawn' = 0
    /\ pc' = "draw"
    /\ UNCHANGED <<api_vars, entry, gsp_vars, image_path, image, gray, lines, grid_mask, contours,
                   largest_contour, rect, contours_rbc, filtered_contours,
                   raw_rbc_count, rbc_per_uL, interpretation, result, error>>

\* one turn of the loop: cnt_shifted = cnt + [x, y]
\* cv2.drawContours(output_img, [cnt_shifted], -1, (0, 255, 0), 2)
\* an exception raised by the call leaves the function: nothing catches it
DrawContour ==
    /\ pc = "draw"
    /\ drawn < Len(filtered_contours)
    /\ \E outcome \in DrawOutcomes :
          IF outcome = "ok"
          THEN /\ heap' = DrawOn(heap, output_img,
                                 <<"contour", Shifted(filtered_contours[drawn + 1],
                                                      rect[1], rect[2])>>)
               /\ drawn' = drawn + 1
               /\ UNCHANGED <<pc, error>>
          ELSE /\ pc' = "raised"
               /\ error' = outcome
               /\ UNCHANGED <<heap, drawn>>
    /\ UNCHANGED <<api_vars, entry, gsp_vars, image_path, image, gray, lines, grid_mask, contours,
                   largest_contour, rect, contours_rbc, filtered_contours,
                   raw_rbc_count, rbc_per_uL, interpretation, output_img, result>>

\* return raw_rbc_count, rbc_per_uL, interpretation, output_img
Return ==
    /\ pc = "draw"
    /\ drawn = Len(filtered_contours)
    /\ result' = <<raw_rbc_count, rbc_per_uL, interpretation, output_img>>
    /\ pc' = "returned"
    /\ UNCHANGED <<api_vars, entry, gsp_vars, image_path, heap, image, gray, lines, grid_mask, contours,
                   largest_contour, rect, contours_rbc, filtered_contours,
                   raw_rbc_count, rbc_per_uL, interpretation, output_img, drawn,
                   error>>

-----------------------------------------------------------------------------
(* gsp.py: analyze_image, statement by statement *)

app_vars == <<lines, grid_mask, contours, largest_contour, rect, contours_rbc,
              filtered_contours, raw_rbc_count, rbc_per_uL>>

\* image = cv2.imread(image_path)
GspImread ==
    /\ pc = "gsp_imread"
    /\ IF image_path.readable
       THEN /\ heap' = Append(heap, Decoded(image_path))
            /\ image' = Len(heap) + 1
       ELSE /\ heap' = heap
            /\ image' = 0
    /\ pc' = "gsp_cvtColor"
    /\ UNCHANGED <<api_vars, entry, gsp_vars, app_vars, image_path, gray, interpretation,
                   output_img, drawn, result, error>>

\* gray = cv2.cvtColor(image, cv2.COLOR_BGR2GRAY)
GspCvtColor ==
    /\ pc = "gsp_cvtColor"
    /\ IF CvtColorRaises(MatOf(heap, image))
       THEN /\ pc' = "raised"
            /\ error' = "cv2.error"
            /\ UNCHANGED <<heap, gray>>
       ELSE /\ heap' = Append(heap, GrayOf(MatOf(heap, image)))
            /\ gray' = Len(heap) + 1
            /\ pc' = "gsp_hough"
            /\ error' = error
    /\ UNCHANGED <<api_vars, entry, gsp_vars, app_vars, image_path, image, interpretation,
                   output_img, drawn, result>>

\* blurred = cv2.medianBlur(gray, 5) (a new array), circles = cv2.HoughCircles(...)
\* rbc_count = 0, abnormal_count = 0
GspHoughCircles ==
    /\ pc = "gsp_hough"
    /\ circles' \in HoughCirclesResults(heap[gray])
    /\ rbc_count' = 0
    /\ abnormal_count' = 0
    /\ pc' = "gsp_copy"
    /\ UNCHANGED <<api_vars, entry, wbc_estimate, estimated_rbc_ul, app_vars, image_path,
                   heap, image, gray, interpretation, output_img, drawn, result,
                   error>>

\* output_img = image.copy()
\* if circles is not None: circles = np.uint16(np.around(circles))
\*                          rbc_count = len(circles[0, :])
GspCopy ==
    /\ pc = "gsp_copy"
    /\ LET c == NdarrayCopy(heap, image)
       IN /\ heap' = c[1]
          /\ output_img' = c[2]
    /\ IF circles.none
       THEN /\ UNCHANGED <<circles, rbc_count>>
            /\ pc' = "gsp_estimate"
       ELSE /\ circles' = [circles EXCEPT !.arr = RoundedCircles(@)]
            /\ rbc_count' = Len(circles.arr)
            /\ pc' = "gsp_draw"
    /\ drawn' = 0
    /\ UNCHANGED <<api_vars, entry, abnormal_count, wbc_estimate, estimated_rbc_ul, app_vars,
                   image_path, image, gray, interpretation, result, error>>

\* one turn of the loop: cv2.circle(output_img, (x, y), r, (0, 255, 0), 2)
\* if r < 6 or r > 14: abnormal_count += 1; cv2.circle(..., (0, 0, 255), 2)
\* the calls are handed numpy scalars; an exception leaves the function
GspDrawCircle ==
    /\ pc = "gsp_draw"
    /\ drawn < Len(circles.arr)
    /\ LET c == circles.arr[drawn + 1]
           green == DrawOn(heap, output_img, <<"circle", c, "green">>)
           red == DrawOn(green, output_img, <<"circle", c, "red">>)
           after == IF drawn + 1 = Len(circles.arr) THEN "gsp_estimate" ELSE "gsp_draw"
       IN \E o1, o2 \in DrawOutcomes :
            IF o1 # "ok"
            THEN /\ pc' = "raised"
                 /\ error' = o1
                 /\ UNCHANGED <<heap, drawn, abnormal_count>>
            ELSE IF ~AbnormalRadius(c[3])
            THEN /\ heap' = green
                 /\ drawn' = drawn + 1
                 /\ pc' = after
                 /\ UNCHANGED <<abnormal_count, error>>
            ELSE IF o2 # "ok"
            THEN /\ heap' = green
                 /\ abnormal_count' = abnormal_count + 1
                 /\ pc' = "raised"
                 /\ error' = o2
                 /\ UNCHANGED drawn
            ELSE /\ heap' = red
                 /\ abnormal_count' = abnormal_count + 1
                 /\ drawn' = drawn + 1
                 /\ pc' = after
                 /\ UNCHANGED error
    /\ UNCHANGED <<api_vars, entry, circles, rbc_count, wbc_estimate, estimated_rbc_ul,
                   app_vars, image_path, image, gray, interpretation, output_img,
                   result>>

\* wbc_estimate = int(rbc_count * 0.01)
\* estimated_rbc_ul = rbc_count * 2000 and the if/elif/else
GspEstimate ==
    /\ pc = "gsp_estimate"
    /\ wbc_estimate' = PyInt(TrueMul(rbc_count, WBC_RATIO))
    /\ estimated_rbc_ul' = GspConcentration(rbc_count)
    /\ interpretation' = GspInterpretation(estimated_rbc_ul')
    /\ pc' = "gsp_return"
    /\ UNCHANGED <<api_vars, entry, circles, rbc_count, abnormal_count, app_vars, image_path,
                   heap, image, gray, output_img, drawn, result, error>>

\* return rbc_count, wbc_estimate, abnormal_count, interpretation, output_img
GspReturn ==
    /\ pc = "gsp_return"
    /\ result' = <<rbc_count, wbc_estimate, abnormal_count, interpretation, output_img>>
    /\ pc' = "returned"
    /\ UNCHANGED <<api_vars, entry, gsp_vars, app_vars, image_path, heap, image, gray,
                   interpretation, output_img, drawn, error>>

Next ==
    \/ Imread
    \/ CvtColor
    \/ Hough
    \/ GridMask
    \/ FindContours
    \/ Largest
    \/ Segment
    \/ Filter
    \/ Estimate
    \/ CopyAndMark
    \/ DrawContour
    \/ Return
    \/ GspImread
    \/ GspCvtColor
    \/ GspHoughCircles
    \/ GspCopy
    \/ GspDrawCircle
    \/ GspEstimate
    \/ GspReturn

Spec == Init /\ [][Next]_vars

-----------------------------------------------------------------------------
(* The estimator on its own: every raw count up to MaxRawCount is given to *)
(* the estimating statements of app.py / rbccount.py and of gsp.py.        *)

EstInit ==
    /\ entry \in {"count_rbc_with_grid", "analyze_image"}
    /\ pc = IF entry = "count_rbc_with_grid" THEN "estimate" ELSE "gsp_estimate"
    /\ \E n \in 0..MaxRawCount :
          /\ raw_rbc_count = IF entry = "count_rbc_with_grid" THEN n ELSE 0
          /\ rbc_count = IF entry = "analyze_image" THEN n ELSE 0
    /\ circles = NoCircles
    /\ abnormal_count = 0
    /\ wbc_estimate = 0
    /\ estimated_rbc_ul = 0
    /\ image_path = [readable |-> TRUE, w |-> 200, h |-> 150]
    /\ heap = <<>>
    /\ image = 0
    /\ gray = 0
    /\ lines = NoLines
    /\ grid_mask = 0
    /\ contours = <<>>
    /\ largest_contour = <<>>
    /\ rect = <<0, 0, 0, 0>>
    /\ contours_rbc = <<>>
    /\ filtered_contours = <<>>
    /\ rbc_per_uL = 0
    /\ interpretation = ""
    /\ output_img = 0
    /\ drawn = 0
    /\ result = <<>>
    /\ error = "none"
    /\ NoTraffic

EstNext ==
    \/ Estimate
    \/ GspEstimate

EstSpec == EstInit /\ [][EstNext]_vars

-----------------------------------------------------------------------------
(* app.py: the /analyze endpoint.  Requests are answered one after the     *)
(* other; each runs count_rbc_with_grid on the uploaded file, statement by *)
(* statement, with the actions above.                                      *)

\* the requests a client sends: without the 'image' field, with a file part
\* that has no name, with a file that is not an image, with an image
Uploads ==
    { [has_image |-> FALSE, filename |-> "", file |-> [readable |-> FALSE, w |-> 0, h |-> 0]],
      [has_image |-> TRUE, filename |-> "", file |-> [readable |-> FALSE, w |-> 0, h |-> 0]],
      [has_image |-> TRUE, filename |-> "notes.txt", file |-> [readable |-> FALSE, w |-> 0, h |-> 0]],
      [has_image |-> TRUE, filename |-> "smear.png", file |-> [readable |-> TRUE, w |-> 64, h |-> 48]] }

\* os.path.join('stored_patterns', filename)
PathJoin(filename) == <<"stored_patterns", filename>>

\* file.save(filepath): writing to the folder itself fails, any other write
\* succeeds or fails with the file system
SaveOutcomes(filename) ==
    IF filename = "" THEN {"IsADirectoryError"} ELSE {"ok", "OSError"}

\* datetime.now().strftime("%Y%m%d_%H%M%S"): the clock cut to whole seconds
Strftime(t) == t

\* f'stored_patterns/result_{timestamp}.png'
ResultPath(timestamp) == <<"stored_patterns", "result", timestamp, "png">>

\* cv2.imwrite: the file is written, or it is not and False is returned, or
\* the encoder raises
ImwriteOutcomes == {"written", "not written", "cv2.error"}

\* RBCData(filename=..., raw_count=..., rbc_per_uL=..., interpretation=...,
\* timestamp=...); id is the key the insert assigns
NewRecord(rows, res, path, timestamp) ==
    [id |-> Len(rows) + 1, filename |-> path, raw_count |-> res[1],
     rbc_per_uL |-> res[2], interpretation |-> res[3], timestamp |-> timestamp]

CommitOutcomes == {"ok", "SQLAlchemyError"}

\* variant: the rows are written although the commit fails
Commit_partial(rows, pending, outcome) == rows \o pending

\* db.session.commit(): every pending record becomes a row, or none does
Commit(rows, pending, outcome) ==
    IF outcome = "ok" THEN rows \o pending ELSE rows

\* the session is scoped to the request and removed when the request ends
Teardown(pending) == <<>>

\* jsonify({...}) of the success branch
Payload(res, path) ==
    [raw_count_in_ROI |-> res[1], estimated_rbc_per_uL |-> res[2],
     interpretation |-> res[3], result_image_saved_at |-> path]

NoImageUploaded == [status |-> 400, body |-> [error |-> "No image uploaded"]]
ProcessingFailed(e) == [status |-> 500, body |-> [error |-> <<"Processing failed", e>>]]
\* an exception that leaves the view function
InternalServerError == [status |-> 500, body |-> [error |-> "Internal Server Error"]]

\* the view function has returned: its locals are gone
Released ==
    /\ pc' = "idle"
    /\ image_path' = NoRequest.file
    /\ heap' = <<>>
    /\ image' = 0
    /\ gray' = 0
    /\ lines' = NoLines
    /\ grid_mask' = 0
    /\ contours' = <<>>
    /\ largest_contour' = <<>>
    /\ rect' = <<0, 0, 0, 0>>
    /\ contours_rbc' = <<>>
    /\ filtered_contours' = <<>>
    /\ raw_rbc_count' = 0
    /\ rbc_per_uL' = 0
    /\ interpretation' = ""
    /\ output_img' = 0
    /\ drawn' = 0
    /\ result' = <<>>
    /\ error' = "none"
    /\ session' = Teardown(session)
    /\ served' = served + 1
    /\ UNCHANGED <<entry, gsp_vars>>

\* a request arrives: the 'image' test, file.save, and the call of
\* count_rbc_with_grid(filepath)
ApiRequest ==
    /\ pc = "idle"
    /\ served < MaxRequests
    /\ \E req \in Uploads :
          /\ request' = req
          /\ IF ~req.has_image
             THEN /\ response' = NoImageUploaded
                  /\ Released
                  /\ UNCHANGED <<store, now, stored_patterns>>
             ELSE \E saved \in SaveOutcomes(req.filename) :
                     IF saved # "ok"
                     THEN /\ response' = InternalServerError
                          /\ Released
                          /\ UNCHANGED <<store, now, stored_patterns>>
                     ELSE /\ stored_patterns' = stored_patterns \cup {PathJoin(req.filename)}
                          /\ image_path' = req.file
                          /\ pc' = "imread"
                          /\ UNCHANGED <<response, session, store, served, now, entry,
                                         gsp_vars, app_vars, heap, image, gray,
                                         interpretation, output_img, drawn, result, error>>

\* count_rbc_with_grid has returned: the time stamp, cv2.imwrite, the new
\* record, add, commit and the answer
ApiStore ==
    /\ pc = "returned"
    /\ \E t \in {now, now + 1}, written \in ImwriteOutcomes, committed \in CommitOutcomes :
          LET timestamp == Strftime(t)
              result_img_path == ResultPath(timestamp)
              new_record == NewRecord(store, result, result_img_path, timestamp)
          IN /\ now' = t
             /\ stored_patterns' = IF written = "written"
                                   THEN stored_patterns \cup {result_img_path}
                                   ELSE stored_patterns
             /\ IF written = "cv2.error"
                THEN /\ pc' = "raised"
                     /\ error' = "cv2.error"
                     /\ UNCHANGED <<session, store, response, served, entry, gsp_vars, app_vars,
                                    image_path, heap, image, gray, interpretation,
                                    output_img, drawn, result>>
                ELSE /\ store' = Commit(store, Append(session, new_record), committed)
                     /\ IF committed = "ok"
                        THEN /\ response' = [status |-> 200,
                                             body |-> Payload(result, result_img_path)]
                             /\ Released
                        ELSE /\ session' = Append(session, new_record)
                             /\ pc' = "raised"
                             /\ error' = committed
                             /\ UNCHANGED <<response, served, entry, gsp_vars, app_vars,
                                            image_path, heap, image, gray, interpretation,
                                            output_img, drawn, result>>
    /\ UNCHANGED request

\* except Exception as e: the 500 answer
ApiExcept ==
    /\ pc = "raised"
    /\ response' = ProcessingFailed(error)
    /\ Released
    /\ UNCHANGED <<request, store, now, stored_patterns>>

ApiInit ==
    /\ entry = "/analyze"
    /\ pc = "idle"
    /\ image_path = NoRequest.file
    /\ circles = NoCircles
    /\ rbc_count = 0
    /\ abnormal_count = 0
    /\ wbc_estimate = 0
    /\ estimated_rbc_ul = 0
    /\ heap = <<>>
    /\ image = 0
    /\ gray = 0
    /\ lines = NoLines
    /\ grid_mask = 0
    /\ contours = <<>>
    /\ largest_contour = <<>>
    /\ rect = <<0, 0, 0, 0>>
    /\ contours_rbc = <<>>
    /\ filtered_contours = <<>>
    /\ raw_rbc_count = 0
    /\ rbc_per_uL = 0
    /\ interpretation = ""
    /\ output_img = 0
    /\ drawn = 0
    /\ result = <<>>
    /\ error = "none"
    /\ NoTraffic

ApiNext ==
    \/ ApiRequest
    \/ Imread
    \/ CvtColor
    \/ Hough
    \/ GridMask
    \/ FindContours
    \/ Largest
    \/ Segment
    \/ Filter
    \/ Estimate
    \/ CopyAndMark
    \/ DrawContour
    \/ Return
    \/ ApiStore
    \/ ApiExcept

ApiSpec == ApiInit /\ [][ApiNext]_vars

-----------------------------------------------------------------------------
(* Properties *)

IsLow(s) == s \in {"LOW RBC COUNT (Anemia)", "LOW RBC COUNT (Possible Anemia)"}
IsHigh(s) ==
    s \in {"HIGH RBC COUNT (Polycythemia)", "HIGH RBC COUNT (Possible Polycythemia)"}
IsNormal(s) == s = "NORMAL RBC COUNT"

InGrid == entry = "count_rbc_with_grid"

\* the ROI rectangle has been computed
RoiSet == largest_contour # <<>>

\* the blob filter has run
Filtered ==
    /\ InGrid
    /\ \/ pc \in {"estimate", "copy", "draw", "returned"}
       \/ pc = "raised" /\ output_img # 0

\* segmentation has run and no component is above the minimum area
NoBlobs ==
    /\ InGrid
    /\ \/ pc \in {"filter", "estimate", "copy", "draw", "returned"}
       \/ pc = "raised" /\ output_img # 0
    /\ \A i \in 1..Len(contours_rbc) : contourArea2(contours_rbc[i]) <= 100

PosIn(seq, c) == CHOOSE i \in 1..Len(seq) : seq[i] = c

\* C1: for every raw count n the concentration computed by
\* count_rbc_with_grid is exactly n * 2000, an integer multiple of 2000
\* (200 / 0.1 evaluates to the float 2000.0 and int() of it is 2000).
C1_ConcentrationIsCountTimes2000 ==
    pc = "copy" =>
        /\ rbc_per_uL = raw_rbc_count * 2000
        /\ rbc_per_uL % 2000 = 0
        /\ PyInt(CONVERSION_FACTOR) = 2000

C1_Witness == pc = "copy" /\ raw_rbc_count = 3001 /\ rbc_per_uL = 6002000

\* C2: the interpretation is LOW exactly when the concentration is below
\* 4,000,000, HIGH exactly when it is above 6,000,000 and NORMAL otherwise;
\* counts 2000 and 3000 are NORMAL, 1999 is LOW, 3001 is HIGH, and exactly
\* one class is produced.
ClassifiedAs(n, c, s) ==
    /\ IsLow(s) <=> c < 4000000
    /\ IsHigh(s) <=> c > 6000000
    /\ IsNormal(s) <=> (4000000 <= c /\ c <= 6000000)
    /\ n \in {2000, 3000} => c \in {4000000, 6000000} /\ IsNormal(s)
    /\ n = 1999 => IsLow(s)
    /\ n = 3001 => IsHigh(s)
    /\ Cardinality({k \in 1..3 : <<IsLow(s), IsNormal(s), IsHigh(s)>>[k]}) = 1

C2_Classification ==
    /\ pc = "copy" => ClassifiedAs(raw_rbc_count, rbc_per_uL, interpretation)
    /\ pc = "gsp_return" => ClassifiedAs(rbc_count, estimated_rbc_ul, interpretation)

C2_Witness ==
    /\ pc = "copy"
    /\ raw_rbc_count = 2000
    /\ rbc_per_uL = 4000000
    /\ interpretation = "NORMAL RBC COUNT"

\* C3 (as claimed): when the line detector finds no lines the region step
\* does not raise and the ROI is the full image (0, 0, width, height).
C3_NoLinesFallsBackToFullImage ==
    (InGrid /\ gray # 0 /\ lines.none /\ pc \notin {"hough", "grid_mask", "findContours", "largest"})
        => /\ pc # "raised"
           /\ rect = <<0, 0, heap[gray].w, heap[gray].h>>

\* C4: a file that cannot be decoded ends the invocation with the error of
\* the conversion step; no later step runs and no result tuple is returned.
C4_DecodeFailurePropagates ==
    ~image_path.readable =>
        /\ result = <<>>
        /\ pc \in {"imread", "cvtColor", "gsp_imread", "gsp_cvtColor", "raised"}
        /\ pc = "raised" => error = "cv2.error"
        /\ gray = 0 /\ output_img = 0

C4_Witness == InGrid /\ ~image_path.readable /\ pc = "raised" /\ error = "cv2.error"

\* C5: the accepted blobs are exactly the extracted components of area
\* strictly above 50, in extraction order, each once, and the raw count is
\* their number; areas {25, 400} give count 1.
C5_FilterKeepsAreaAboveMin ==
    Filtered =>
        /\ \A c \in Range(contours_rbc) :
              c \in Range(filtered_contours) <=> contourArea2(c) > 100
        /\ Range(filtered_contours) \subseteq Range(contours_rbc)
        /\ \A i, j \in 1..Len(filtered_contours) :
              i < j => PosIn(contours_rbc, filtered_contours[i])
                         < PosIn(contours_rbc, filtered_contours[j])
        /\ raw_rbc_count
             = Cardinality({i \in 1..Len(contours_rbc) : contourArea2(contours_rbc[i]) > 100})
        /\ raw_rbc_count = Len(filtered_contours)
        /\ {contourArea2(c) : c \in Range(contours_rbc)} = {50, 800} => raw_rbc_count = 1

C5_Witness ==
    /\ pc = "returned"
    /\ Len(contours_rbc) = 2
    /\ contourArea2(contours_rbc[1]) = 100
    /\ contourArea2(contours_rbc[2]) = 101
    /\ filtered_contours = <<contours_rbc[2]>>
    /\ raw_rbc_count = 1

\* C6: when no component is above the minimum area the invocation does not
\* raise, draws no outline and returns count 0, concentration 0 and LOW.
C6_NoBlobsGivesZeroLow ==
    NoBlobs =>
        /\ pc # "raised"
        /\ pc = "draw" => ENABLED Return
        /\ pc = "returned" =>
              /\ result[1] = 0
              /\ result[2] = 0
              /\ result[3] = "LOW RBC COUNT (Anemia)"

C6_Witness ==
    /\ pc = "returned"
    /\ Len(contours_rbc) = 2
    /\ \E i \in 1..2 : contourArea2(contours_rbc[i]) = 100
    /\ result[1] = 0
    /\ result[3] = "LOW RBC COUNT (Anemia)"

\* C7: the ROI rectangle lies inside the image: 0 <= x, 0 <= y,
\* x + w <= width, y + h <= height, also for strokes at the image border.
C7_RoiInsideImage ==
    RoiSet =>
        /\ 0 <= rect[1]
        /\ 0 <= rect[2]
        /\ rect[3] >= 1 /\ rect[4] >= 1
        /\ rect[1] + rect[3] <= heap[image].w
        /\ rect[2] + rect[4] <= heap[image].h

C7_Witness ==
    /\ RoiSet
    /\ \E i \in 1..Len(lines.segs) : lines.segs[i] = <<0, 0, 199, 0>>
    /\ rect[1] = 0 /\ rect[2] = 0
    /\ rect[1] + rect[3] = heap[image].w

\* C8: the ROI is the bounding rectangle of the grid component of largest
\* area, the first one in extraction order among those of maximal area.
C8_LargestFirstOnTies ==
    RoiSet =>
        \E k \in 1..Len(contours) :
            /\ largest_contour = contours[k]
            /\ \A j \in 1..Len(contours) : contourArea2(contours[j]) <= contourArea2(contours[k])
            /\ \A j \in 1..(k - 1) : contourArea2(contours[j]) < contourArea2(contours[k])
            /\ LET xs == {contours[k][i][1] : i \in 1..Len(contours[k])}
                   ys == {contours[k][i][2] : i \in 1..Len(contours[k])}
               IN /\ rect[1] = MinOf(xs) /\ rect[2] = MinOf(ys)
                  /\ rect[1] + rect[3] - 1 = MaxOf(xs)
                  /\ rect[2] + rect[4] - 1 = MaxOf(ys)

C8_Witness ==
    /\ RoiSet
    /\ Len(contours) >= 2
    /\ contourArea2(contours[1]) = contourArea2(contours[2])
    /\ largest_contour = contours[1]
    /\ boundingRect(contours[1]) # boundingRect(contours[2])

\* C9: the decoded image and its grayscale derivative are never modified:
\* every drawing goes to a separate copy.
C9_OriginalNeverMutated ==
    /\ image # 0 => heap[image] = Decoded(image_path)
    /\ gray # 0 => heap[gray] = GrayOf(Decoded(image_path))
    /\ output_img # 0 => output_img # image /\ output_img # gray

C9_Witness ==
    /\ InGrid
    /\ pc = "returned"
    /\ Len(heap[output_img].ink) >= 2
    /\ heap[image].ink = <<>>

\* C10 (as claimed): once count, concentration and interpretation are
\* computed the invocation returns them, whatever happens while drawing.
C10_DrawFailureKeepsResult ==
    (InGrid /\ interpretation # "" /\ pc \in {"returned", "raised"}) =>
        /\ pc = "returned"
        /\ result[1] = raw_rbc_count
        /\ result[2] = rbc_per_uL
        /\ result[3] = interpretation

\* the annotated copy exists
Annotating == InGrid /\ output_img # 0

\* C11: every accepted contour is drawn with each of its points (px, py)
\* moved to (px + x, py + y), (x, y) the ROI origin; every drawn point lies
\* inside the ROI rectangle in image coordinates; the contours that were
\* counted stay as extracted, in ROI-local coordinates.
C11_ContoursShiftedByRoiOrigin ==
    Annotating =>
        LET ink == heap[output_img].ink
        IN /\ Len(ink) = 1 + drawn
           /\ drawn <= Len(filtered_contours)
           /\ \A k \in 1..drawn :
                 LET pts == ink[k + 1][2]
                     c == filtered_contours[k]
                 IN /\ ink[k + 1][1] = "contour"
                    /\ Len(pts) = Len(c)
                    /\ \A i \in 1..Len(c) :
                          /\ pts[i][1] = c[i][1] + rect[1]
                          /\ pts[i][2] = c[i][2] + rect[2]
                          /\ rect[1] <= pts[i][1] /\ pts[i][1] < rect[1] + rect[3]
                          /\ rect[2] <= pts[i][2] /\ pts[i][2] < rect[2] + rect[4]
           /\ raw_rbc_count = Len(filtered_contours)
           /\ \A k \in 1..Len(filtered_contours) :
                 /\ filtered_contours[k] \in Range(contours_rbc)
                 /\ \A i \in 1..Len(filtered_contours[k]) :
                       /\ 0 <= filtered_contours[k][i][1]
                       /\ filtered_contours[k][i][1] < rect[3]
                       /\ 0 <= filtered_contours[k][i][2]
                       /\ filtered_contours[k][i][2] < rect[4]

C11_Witness ==
    /\ Annotating
    /\ pc = "returned"
    /\ drawn = 2
    /\ rect[1] > 0 /\ rect[2] > 0
    /\ heap[output_img].ink[2][2][1]
         = <<filtered_contours[1][1][1] + rect[1], filtered_contours[1][1][2] + rect[2]>>
    /\ heap[output_img].ink[2][2] # filtered_contours[1]

\* C12: over any sequence of requests to /analyze, the table grows only in
\* the step that ends a request whose analysis returned, by the one record of
\* that result, and that request answers 200 with the result payload; a
\* request without the 'image' field answers 400, a request whose processing
\* raised answers 500, and neither changes the table.
C12_StoreGrowsOnlyWithResult ==
    [][ /\ store' # store =>
              /\ pc = "returned" /\ result # <<>>
              /\ served' = served + 1
              /\ response'.status = 200
              /\ Len(store') = Len(store) + 1
              /\ SubSeq(store', 1, Len(store)) = store
              /\ LET rec == store'[Len(store')]
                 IN /\ rec.raw_count = result[1]
                    /\ rec.rbc_per_uL = result[2]
                    /\ rec.interpretation = result[3]
                    /\ response'.body = Payload(result, rec.filename)
        /\ served' # served =>
              /\ response'.status \in {200, 400, 500}
              /\ response'.status = 200 => store' # store
              /\ ~request'.has_image => response'.status = 400 /\ store' = store
              /\ (request'.has_image /\ pc \in {"idle", "raised"}) =>
                    response'.status = 500 /\ store' = store
      ]_vars

C12_Witness ==
    /\ entry = "/analyze"
    /\ served = 2
    /\ Len(store) = 1
    /\ store[1].raw_count > 0
    /\ response.status \in {400, 500}
    /\ pc = "idle"

====
